---- MODULE Spec2Model ----
(***************************************************************************)
(* A model of maryamyriameliamurphies.js: tuple/func.js, list/indexing.js, *)
(* list/inf.js and, for map, list/trans.js.                                *)
(*                                                                         *)
(* JavaScript values are records [t, n, els]: t is the kind of value, n a  *)
(* number payload, els the contained values.  A thrown error is a value    *)
(* whose kind is the name of the error.error function that raised it.      *)
(***************************************************************************)
EXTENDS Integers, Sequences, FiniteSets, TLC

VARIABLES call, arr,
          as, x, xs, heap, genCount, cur, pos, seen, cpc,
          rn, rx, rheap, rgen, rpc, rem, tcur, out

tupleVars == <<call, arr>>
cycleVars == <<as, x, xs, heap, genCount, cur, pos, seen, cpc>>
infVars   == <<rn, rx, rheap, rgen, rpc, rem, tcur, out>>
vars      == <<call, arr, as, x, xs, heap, genCount, cur, pos, seen, cpc,
               rn, rx, rheap, rgen, rpc, rem, tcur, out>>

(* ------------------------------ bounds -------------------------------- *)
MaxVal  == 2      \* numbers are 0..MaxVal
MaxArgs == 3      \* longest argument list / array
MaxLen  == 3      \* longest finite List passed to list/indexing.js
MaxCycleLen == 2  \* longest finite List passed to cycle
MaxPos  == 4      \* deepest position a traversal of cycle(as) reaches
MaxN    == 7      \* largest n passed to replicate
Cursors == 1..2   \* independent traversals of one cycle(as)
MaxGen  == MaxPos + 2

(* ------------------------------ values -------------------------------- *)
Val(t, n, els) == [t |-> t, n |-> n, els |-> els]
Undef    == Val("undefined", 0, <<>>)
Num(n)   == Val("number", n, <<>>)
Bool(b)  == Val("boolean", IF b THEN 1 ELSE 0, <<>>)
Fun      == Val("function", 0, <<>>)
Arr(els) == Val("array", 0, els)
Throw(e) == Val(e, 0, <<>>)

ErrorKinds == {"tupleError", "typeError", "listError", "rangeError", "emptyList"}
IsThrow(v) == v.t \in ErrorKinds

SeqsUpTo(S, n) == UNION {[1..k -> S] : k \in 0..n}
Nums == {Num(v) : v \in 0..MaxVal}

(* --------------------------- tuple/func.js ---------------------------- *)
\* class Tuple: the constructor stores its arguments under the keys 1, 2, ...
Tuple(els) == Val("Tuple", 0, els)
\* property read p[k]
Prop(p, k) == IF k <= Len(p.els) THEN p.els[k] ELSE Undef

unit == Tuple(<<>>)

\* a plausible slip: the `a !== unit` conjunct forgotten
isTupleInstanceOnly(a) == IF a.t = "Tuple" THEN TRUE ELSE FALSE

isTuple(a) == IF a.t = "Tuple" /\ a # unit THEN TRUE ELSE FALSE

tuple(args) ==
  LET a == IF Len(args) >= 1 THEN args[1] ELSE Undef
      b == IF Len(args) >= 2 THEN args[2] ELSE Undef
  IN  IF a = Undef THEN unit
      ELSE IF b = Undef THEN a
      ELSE Tuple(args)

fst(p) == IF isTuple(p) THEN Prop(p, 1) ELSE Throw("tupleError")

snd(p) == IF isTuple(p) THEN Prop(p, 2) ELSE Throw("tupleError")

\* the curried function handed to uncurry: f = a => b => <application of f to a and b>
fApply(a, b) == Val("applied", 0, <<a, b>>)

uncurry(p) ==
  IF p = Undef THEN Fun
  ELSE IF isTuple(p) THEN fApply(fst(p), snd(p)) ELSE Throw("tupleError")

\* the function uncurry(f) returns, applied to p
uncurryDeferred(p) ==
  IF isTuple(p) THEN fApply(fst(p), snd(p)) ELSE Throw("tupleError")

swap(p) == IF isTuple(p) THEN tuple(<<snd(p), fst(p)>>) ELSE Throw("tupleError")

isUnit(p) ==
  IF isTuple(p) THEN Bool(FALSE)
  ELSE IF p = unit THEN Bool(TRUE)
  ELSE Throw("typeError")

\* arr.shift(): the array that is left behind
shiftRest(els) == Tail(els)

\* the array argument after fromArrayToTuple returned
fromArrayToTupleArr(a) ==
  IF a.t # "array" THEN a.els
  ELSE IF Len(a.els) = 0 THEN a.els
  ELSE IF Len(a.els) = 1 THEN shiftRest(a.els)
  ELSE a.els

fromArrayToTuple(a) ==
  IF a.t # "array" THEN Throw("typeError")
  ELSE IF Len(a.els) = 0 THEN unit
  ELSE IF Len(a.els) = 1 THEN Head(a.els)
  ELSE Tuple(a.els)

fromTupleToArray(p) == IF isTuple(p) THEN Arr(p.els) ELSE Throw("tupleError")

(* ------------------ list primitives (list/list.js etc.) --------------- *)
List(els) == Val("List", 0, els)
emptyList == List(<<>>)
isList(a) == a.t = "List"
isEmpty(a) == a = emptyList
head(a) == a.els[1]
tail(a) == List(Tail(a.els))
length(a) == Len(a.els)
cons(a, b) == List(<<a>> \o b.els)

\* listRange(start, end): start, start+1, ... below end; [start] when start = end
listRange(start, end) ==
  IF start = end THEN List(<<Num(start)>>)
  ELSE List([i \in 1..(end - start) |-> Num(start + i - 1)])

RECURSIVE zip(_, _)
zip(a, b) ==
  IF isEmpty(a) \/ isEmpty(b) THEN emptyList
  ELSE cons(Tuple(<<head(a), head(b)>>), zip(tail(a), tail(b)))

\* f is a function from values to boolean values
RECURSIVE filter(_, _)
filter(f, a) ==
  IF isEmpty(a) THEN emptyList
  ELSE IF f[head(a)] = Bool(TRUE) THEN cons(head(a), filter(f, tail(a)))
  ELSE filter(f, tail(a))

Nothing == Val("Nothing", 0, <<>>)
Just(v) == Val("Just", 0, <<v>>)
listToMaybe(a) == IF isEmpty(a) THEN Nothing ELSE Just(head(a))

\* JavaScript truthiness of the values a predicate returns here
Truthy(v) == ~(v = Bool(FALSE) \/ v = Num(0) \/ v = Undef)

\* isEq(a), the predicate "is equal to a"
isEq(a) == [v \in Nums |-> Bool(v = a)]

(* --------------------------- list/trans.js ---------------------------- *)
RECURSIVE map(_, _)
map(f, a) ==
  IF isList(a) = FALSE THEN Throw("listError")
  ELSE IF isEmpty(a) THEN emptyList
  ELSE cons(f[head(a)], map(f, tail(a)))

(* -------------------------- list/indexing.js -------------------------- *)
\* a plausible slip: the base case of the recursion at n = 1
RECURSIVE indexFromOne(_, _)
indexFromOne(a, n) ==
  IF isList(a) = FALSE THEN Throw("listError")
  ELSE IF n < 0 THEN Throw("rangeError")
  ELSE IF isEmpty(a) THEN Throw("rangeError")
  ELSE IF n = 1 THEN head(a)
  ELSE indexFromOne(tail(a), n - 1)

RECURSIVE index(_, _)
index(a, n) ==
  IF isList(a) = FALSE THEN Throw("listError")
  ELSE IF n < 0 THEN Throw("rangeError")
  ELSE IF isEmpty(a) THEN Throw("rangeError")
  ELSE IF n = 0 THEN head(a)
  ELSE index(tail(a), n - 1)

\* the values a function mapped or filtered over the List l is applied to
Range(l) == {l.els[i] : i \in 1..Len(l.els)}

\* a plausible slip: the indices counted from 1
findIndicesFromOne(p, a) ==
  IF isList(a) = FALSE THEN Throw("listError")
  ELSE LET z == zip(a, listRange(1, length(a) + 1))
           f == [t \in Range(z) |-> IF Truthy(p[fst(t)]) THEN Bool(TRUE) ELSE Bool(FALSE)]
           m == [t \in Range(z) |-> snd(t)]
       IN  map(m, filter(f, z))

\* a plausible slip: m projects the element instead of its index
findIndicesValues(p, a) ==
  IF isList(a) = FALSE THEN Throw("listError")
  ELSE LET z == zip(a, listRange(0, length(a)))
           f == [t \in Range(z) |-> IF Truthy(p[fst(t)]) THEN Bool(TRUE) ELSE Bool(FALSE)]
           m == [t \in Range(z) |-> fst(t)]
       IN  map(m, filter(f, z))

findIndices(p, a) ==
  IF isList(a) = FALSE THEN Throw("listError")
  ELSE LET z == zip(a, listRange(0, length(a)))
           f == [t \in Range(z) |-> IF Truthy(p[fst(t)]) THEN Bool(TRUE) ELSE Bool(FALSE)]
           m == [t \in Range(z) |-> snd(t)]
       IN  map(m, filter(f, z))

findIndex(p, a) ==
  IF isList(a) THEN listToMaybe(findIndices(p, a)) ELSE Throw("listError")

\* a plausible slip: the index found instead of the element
findPosition(p, a) ==
  IF isList(a) THEN listToMaybe(findIndices(p, a)) ELSE Throw("listError")

find(p, a) ==
  IF isList(a) THEN listToMaybe(filter(p, a)) ELSE Throw("listError")

elemIndex(a, l) ==
  IF isList(l) THEN findIndex(isEq(a), l) ELSE Throw("listError")

elemIndices(a, l) ==
  IF isList(l) THEN findIndices(isEq(a), l) ELSE Throw("listError")

(* ---------------------------- list/inf.js ----------------------------- *)
\* A lazy List is a chain of nodes in a heap; tail = 0 is emptyList.  A node
\* with lazy = TRUE is the target of a Proxy whose handler forces the tail.
Node(h, t, l) == [head |-> h, tail |-> t, lazy |-> l]

\* listGenerator of cycle: the two assignments of the loop body
listGeneratorX(a, s) == IF isEmpty(s) THEN head(a) ELSE head(s)

\* a plausible slip: the wrap-around restarts at as instead of tail(as)
listGeneratorXsRestart(a, s) == IF isEmpty(s) THEN a ELSE tail(s)

listGeneratorXs(a, s) == IF isEmpty(s) THEN tail(a) ELSE tail(s)

\* handler.get: prop === `tail` && isEmpty(tail(target))
\* a plausible slip: the isEmpty(tail(target)) conjunct forgotten
handlerAlwaysForces(target) == TRUE

handlerForces(target) == target.tail = 0

\* step functions of listInfBy
id(v) == v
succ(v) == Num(v.n + 1)
applyStep(step, v) == IF step = "id" THEN id(v) ELSE succ(v)

\* listInfBy(start, step) = listRangeLazyBy(start, Infinity, step): one lazy
\* node holding start, the generator's x starts at start
listInfBy(start, step) ==
  [heap |-> <<Node(start, 0, TRUE)>>, x |-> start, step |-> step]

\* cons(a)(l) for a lazy list l: a plain node in front of l's nodes
consLazy(a, l) ==
  [heap |-> <<Node(a, 2, FALSE)>> \o
            [i \in 1..Len(l.heap) |->
               [l.heap[i] EXCEPT !.tail = IF @ = 0 THEN 0 ELSE @ + 1]],
   x |-> l.x, step |-> l.step]

\* a plausible slip: the successor function in place of id
repeatCounting(a) == consLazy(a, listInfBy(a, "succ"))

repeat(a) == consLazy(a, listInfBy(a, "id"))

(* ------------------------------ inputs -------------------------------- *)
TupleArgAtoms == Nums \cup {Undef, unit}
ArgLists      == SeqsUpTo(TupleArgAtoms, MaxArgs)
Pairs         == {Tuple(s) : s \in [1..2 -> Nums \cup {unit}]}
Operands      == Nums \cup Pairs \cup
                 {Undef, unit, Fun, Arr(<<Num(0), Num(1)>>), emptyList,
                  Tuple(<<Num(0), Num(1), Num(0)>>)}
Arrays        == {Arr(s) : s \in SeqsUpTo(Nums \cup {Undef}, MaxArgs)}
NonArrays     == {Undef, unit, Num(0), Tuple(<<Num(0), Num(1)>>), emptyList}
Lists         == {List(s) : s \in SeqsUpTo(Nums, MaxLen)}
NonLists      == {Num(0), unit, Fun, Arr(<<Num(0)>>), Tuple(<<Num(0), Num(1)>>)}
PredResults   == {Bool(TRUE), Bool(FALSE), Num(1), Num(0)}
Preds         == [Nums -> PredResults]
BoolPreds     == [Nums -> {Bool(TRUE), Bool(FALSE)}]
Indices       == (0 - 2)..(MaxLen + 1)
CycleLists    == {List(s) : s \in SeqsUpTo(Nums, MaxCycleLen)}

(* --------------------------- initial state ---------------------------- *)
NoPred == <<>>
Call(op, args, p, ret) == [op |-> op, args |-> args, p |-> p, ret |-> ret]

Init ==
  /\ call = Call("none", <<>>, NoPred, Undef)
  /\ arr = <<>>
  /\ as = Undef /\ x = Undef /\ xs = emptyList
  /\ heap = <<>> /\ genCount = 0
  /\ cur = [c \in Cursors |-> 0]
  /\ pos = [c \in Cursors |-> 0]
  /\ seen = [k \in 0..MaxPos |-> {}]
  /\ cpc = "idle"
  /\ rn = 0 /\ rx = Undef /\ rheap = <<>>
  /\ rgen = [x |-> Undef, step |-> "id"]
  /\ rpc = "idle" /\ rem = 0 /\ tcur = 0 /\ out = <<>>

(* ----------------------- calls into tuple/func.js --------------------- *)
\* every behaviour is one call: a function is entered from the idle state
CallTuple ==
  /\ call.op = "none"
  /\ \E args \in ArgLists :
      /\ call' = Call("tuple", args, NoPred, tuple(args))
      /\ UNCHANGED <<arr, cycleVars, infVars>>

CallFst ==
  /\ call.op = "none"
  /\ \E p \in Operands :
      /\ call' = Call("fst", <<p>>, NoPred, fst(p))
      /\ UNCHANGED <<arr, cycleVars, infVars>>

CallSnd ==
  /\ call.op = "none"
  /\ \E p \in Operands :
      /\ call' = Call("snd", <<p>>, NoPred, snd(p))
      /\ UNCHANGED <<arr, cycleVars, infVars>>

CallSwap ==
  /\ call.op = "none"
  /\ \E p \in Operands :
      /\ call' = Call("swap", <<p>>, NoPred, swap(p))
      /\ UNCHANGED <<arr, cycleVars, infVars>>

CallUncurry ==
  /\ call.op = "none"
  /\ \E p \in Operands :
      /\ call' = Call("uncurry", <<p>>, NoPred, uncurry(p))
      /\ UNCHANGED <<arr, cycleVars, infVars>>

CallUncurryDeferred ==
  /\ call.op = "none"
  /\ \E p \in Operands :
      /\ call' = Call("uncurryDeferred", <<p>>, NoPred, uncurryDeferred(p))
      /\ UNCHANGED <<arr, cycleVars, infVars>>

CallIsTuple ==
  /\ call.op = "none"
  /\ \E p \in Operands :
      /\ call' = Call("isTuple", <<p>>, NoPred, Bool(isTuple(p)))
      /\ UNCHANGED <<arr, cycleVars, infVars>>

CallIsUnit ==
  /\ call.op = "none"
  /\ \E p \in Operands :
      /\ call' = Call("isUnit", <<p>>, NoPred, isUnit(p))
      /\ UNCHANGED <<arr, cycleVars, infVars>>

CallFromTupleToArray ==
  /\ call.op = "none"
  /\ \E p \in Operands :
      /\ call' = Call("fromTupleToArray", <<p>>, NoPred, fromTupleToArray(p))
      /\ UNCHANGED <<arr, cycleVars, infVars>>

CallFromArrayToTuple ==
  /\ call.op = "none"
  /\ \E a \in Arrays \cup NonArrays :
      /\ call' = Call("fromArrayToTuple", <<a>>, NoPred, fromArrayToTuple(a))
      /\ arr' = fromArrayToTupleArr(a)
      /\ UNCHANGED <<cycleVars, infVars>>

NextTuple ==
  \/ CallTuple
  \/ CallFst
  \/ CallSnd
  \/ CallSwap
  \/ CallUncurry
  \/ CallUncurryDeferred
  \/ CallIsTuple
  \/ CallIsUnit
  \/ CallFromTupleToArray
  \/ CallFromArrayToTuple

SpecTuple == Init /\ [][NextTuple]_vars

(* ---------------------- calls into list/indexing.js ------------------- *)
CallIndex ==
  /\ call.op = "none"
  /\ \E a \in Lists \cup NonLists, n \in Indices :
      /\ call' = Call("index", <<a, Num(n)>>, NoPred, index(a, n))
      /\ UNCHANGED <<arr, cycleVars, infVars>>

CallElemIndex ==
  /\ call.op = "none"
  /\ \E v \in Nums, a \in Lists \cup NonLists :
      /\ call' = Call("elemIndex", <<v, a>>, NoPred, elemIndex(v, a))
      /\ UNCHANGED <<arr, cycleVars, infVars>>

CallElemIndices ==
  /\ call.op = "none"
  /\ \E v \in Nums, a \in Lists \cup NonLists :
      /\ call' = Call("elemIndices", <<v, a>>, NoPred, elemIndices(v, a))
      /\ UNCHANGED <<arr, cycleVars, infVars>>

CallFind ==
  /\ call.op = "none"
  /\ \E p \in BoolPreds, a \in Lists \cup NonLists :
      /\ call' = Call("find", <<a>>, p, find(p, a))
      /\ UNCHANGED <<arr, cycleVars, infVars>>

CallFindIndex ==
  /\ call.op = "none"
  /\ \E p \in Preds, a \in Lists \cup NonLists :
      /\ call' = Call("findIndex", <<a>>, p, findIndex(p, a))
      /\ UNCHANGED <<arr, cycleVars, infVars>>

CallFindIndices ==
  /\ call.op = "none"
  /\ \E p \in Preds, a \in Lists \cup NonLists :
      /\ call' = Call("findIndices", <<a>>, p, findIndices(p, a))
      /\ UNCHANGED <<arr, cycleVars, infVars>>

NextIndexing ==
  \/ CallIndex
  \/ CallElemIndex
  \/ CallElemIndices
  \/ CallFind
  \/ CallFindIndex
  \/ CallFindIndices

SpecIndexing == Init /\ [][NextIndexing]_vars

(* ------------------------------- cycle -------------------------------- *)
\* cycle(as): the guards, then the closure variables and the first node
Cycle ==
  /\ cpc \in {"idle", "listError", "emptyList"}
  /\ \E a \in CycleLists \cup NonLists :
    /\ as' = a
    /\ IF isList(a) = FALSE
         THEN cpc' = "listError" /\ UNCHANGED <<x, xs, heap, cur>>
       ELSE IF isEmpty(a)
         THEN cpc' = "emptyList" /\ UNCHANGED <<x, xs, heap, cur>>
       ELSE /\ x' = head(a)
            /\ xs' = tail(a)
            /\ heap' = <<Node(head(a), 0, TRUE)>>
            /\ cur' = [c \in Cursors |-> 1]
            /\ cpc' = "ready"
    /\ UNCHANGED <<genCount, pos, seen, tupleVars, infVars>>

\* as.tail() on the node cursor c holds: handler.get, then the call of the
\* function it returned
ReadTail(c) ==
  /\ cpc = "ready"
  /\ pos[c] < MaxPos
  /\ LET t == cur[c] IN
       IF handlerForces(heap[t])
         THEN /\ genCount < MaxGen
              /\ x' = listGeneratorX(as, xs)
              /\ xs' = listGeneratorXs(as, xs)
              /\ genCount' = genCount + 1
              /\ heap' = Append([heap EXCEPT ![t].tail = Len(heap) + 1],
                                Node(x', 0, TRUE))
              /\ cur' = [cur EXCEPT ![c] = Len(heap) + 1]
         ELSE /\ cur' = [cur EXCEPT ![c] = heap[t].tail]
              /\ UNCHANGED <<x, xs, genCount, heap>>
  /\ pos' = [pos EXCEPT ![c] = @ + 1]
  /\ UNCHANGED <<as, seen, cpc, tupleVars, infVars>>

\* as.head() on the node cursor c holds
ReadHead(c) ==
  /\ cpc = "ready"
  /\ seen' = [seen EXCEPT ![pos[c]] = @ \cup {heap[cur[c]].head}]
  /\ UNCHANGED <<as, x, xs, heap, genCount, cur, pos, cpc, tupleVars, infVars>>

\* the caller goes back to the List cycle returned
Rewind(c) ==
  /\ cpc = "ready"
  /\ pos[c] > 0
  /\ cur' = [cur EXCEPT ![c] = 1]
  /\ pos' = [pos EXCEPT ![c] = 0]
  /\ UNCHANGED <<as, x, xs, heap, genCount, seen, cpc, tupleVars, infVars>>

NextCycle ==
  \/ Cycle
  \/ \E c \in Cursors : ReadTail(c)
  \/ \E c \in Cursors : ReadHead(c)
  \/ \E c \in Cursors : Rewind(c)

SpecCycle == Init /\ [][NextCycle]_vars

(* --------------------------- repeat, replicate ------------------------ *)
\* replicate(n, x) = take(n, repeat(x)): build repeat(x), enter take
Replicate ==
  /\ rpc \in {"idle", "done"}
  /\ \E n \in 0..MaxN, v \in Nums :
    /\ rn' = n /\ rx' = v
    /\ rheap' = repeat(v).heap
    /\ rgen' = [x |-> repeat(v).x, step |-> repeat(v).step]
    /\ rem' = n /\ tcur' = 1 /\ out' = <<>>
    /\ rpc' = "take"
    /\ UNCHANGED <<tupleVars, cycleVars>>

\* one activation of take_(n, as)
TakeStep ==
  /\ rpc = "take"
  /\ IF rem <= 0 \/ tcur = 0
       THEN rpc' = "done" /\ UNCHANGED <<rheap, rgen, rem, tcur, out>>
       ELSE /\ out' = Append(out, rheap[tcur].head)
            /\ rem' = rem - 1
            /\ IF rheap[tcur].lazy /\ rheap[tcur].tail = 0
                 THEN /\ rgen' = [rgen EXCEPT !.x = applyStep(rgen.step, rgen.x)]
                      /\ rheap' = Append([rheap EXCEPT ![tcur].tail = Len(rheap) + 1],
                                         Node(rgen'.x, 0, TRUE))
                      /\ tcur' = Len(rheap) + 1
                 ELSE /\ tcur' = rheap[tcur].tail
                      /\ UNCHANGED <<rheap, rgen>>
            /\ UNCHANGED rpc
  /\ UNCHANGED <<rn, rx, tupleVars, cycleVars>>

NextInf ==
  \/ Replicate
  \/ TakeStep

SpecInf == Init /\ [][NextInf]_vars
FairSpecInf == SpecInf /\ WF_vars(TakeStep)

(* ======================= properties: tuple/func.js ==================== *)
IsCall(op) == call.op = op
Arg(i) == call.args[i]
NotATuple(v) == v.t # "Tuple" \/ Len(v.els) = 0

tupleByCount(args) ==
  IF Len(args) = 0 THEN unit
  ELSE IF Len(args) = 1 THEN args[1]
  ELSE Tuple(args)

\* C6: tuple(...as) is decided by the number of arguments, whatever their
\* values: none gives unit, one gives that value unaltered, two or more give
\* a Tuple p with isTuple(p), fst(p) the first and snd(p) the second argument.
C6_TupleByArgumentCount ==
  IsCall("tuple") =>
    /\ call.ret = tupleByCount(call.args)
    /\ Len(call.args) >= 2 =>
         /\ isTuple(call.ret)
         /\ fst(call.ret) = Arg(1)
         /\ snd(call.ret) = Arg(2)

\* C7: isTuple(unit) is false; fst, snd, swap, fromTupleToArray and uncurry
\* (one-step, i.e. called with a p, and deferred) raise a tuple error when
\* the tuple argument is unit or not a Tuple; isUnit is true for unit, false
\* for a non-empty Tuple and a type error for everything else.
C7_TupleGuards ==
  /\ IsCall("isTuple") /\ Arg(1) = unit => call.ret = Bool(FALSE)
  /\ /\ call.op \in {"fst", "snd", "swap", "fromTupleToArray", "uncurryDeferred"}
     /\ NotATuple(Arg(1))
     => call.ret = Throw("tupleError")
  /\ IsCall("uncurry") /\ Arg(1) # Undef /\ NotATuple(Arg(1))
     => call.ret = Throw("tupleError")
  /\ IsCall("isUnit") =>
       call.ret = IF Arg(1) = unit THEN Bool(TRUE)
                  ELSE IF ~NotATuple(Arg(1)) THEN Bool(FALSE)
                  ELSE Throw("typeError")

C7_Witness ==
  /\ IsCall("uncurryDeferred")
  /\ Arg(1) = unit
  /\ call.ret = Throw("tupleError")

\* C8: fromArrayToTuple leaves its array argument as it was (same length,
\* same elements) and returns unit for [], the element for a one-element
\* array and a Tuple of the elements otherwise; a non-array is a type error.
C8_FromArrayToTuplePure ==
  IsCall("fromArrayToTuple") =>
    IF Arg(1).t = "array"
      THEN /\ arr = Arg(1).els
           /\ call.ret = IF Len(Arg(1).els) = 0 THEN unit
                         ELSE IF Len(Arg(1).els) = 1 THEN Arg(1).els[1]
                         ELSE Tuple(Arg(1).els)
      ELSE call.ret = Throw("typeError")

(* ====================== properties: list/indexing.js ================== *)
Matches(p, l) == {i \in 0..(Len(l.els) - 1) : Truthy(p[l.els[i + 1]])}
Equals(v, l) == {i \in 0..(Len(l.els) - 1) : l.els[i + 1] = v}
Least(S) == CHOOSE i \in S : \A j \in S : i <= j

\* r is the List of the members of S, each once, ascending
IsIndexList(r, S) ==
  /\ r.t = "List"
  /\ Len(r.els) = Cardinality(S)
  /\ \A i \in 1..Len(r.els) : r.els[i].t = "number" /\ r.els[i].n \in S
  /\ \A i, j \in 1..Len(r.els) : i < j => r.els[i].n < r.els[j].n

FirstOrNothing(S) == IF S = {} THEN Nothing ELSE Just(Num(Least(S)))

\* C2: index(as, n) is the element at 0-based position n when 0 <= n < L,
\* a range error when n < 0 or n >= L (the empty list included), and a list
\* error when as is not a List.
C2_Index ==
  IsCall("index") =>
    IF Arg(1).t = "List"
      THEN IF 0 <= Arg(2).n /\ Arg(2).n < Len(Arg(1).els)
             THEN call.ret = Arg(1).els[Arg(2).n + 1]
             ELSE call.ret = Throw("rangeError")
      ELSE call.ret = Throw("listError")

C2_Witness ==
  /\ IsCall("index")
  /\ Arg(1).t = "List" /\ Len(Arg(1).els) >= 3
  /\ Arg(2).n = 2
  /\ call.ret = Arg(1).els[3]
  /\ Arg(1).els[3] # Arg(1).els[2]

\* C3: findIndices(p, xs) is the List of exactly the positions whose
\* element makes p truthy, each once and strictly ascending; elemIndices(a,
\* xs) is the same for the predicate "is equal to a".
C3_FindIndices ==
  /\ IsCall("findIndices") /\ Arg(1).t = "List"
     => IsIndexList(call.ret, Matches(call.p, Arg(1)))
  /\ IsCall("elemIndices") /\ Arg(2).t = "List"
     => IsIndexList(call.ret, Equals(Arg(1), Arg(2)))

C3_Witness ==
  /\ IsCall("findIndices")
  /\ Arg(1).t = "List"
  /\ Len(call.ret.els) = 2
  /\ Len(Arg(1).els) = 3
  /\ call.ret.els[2] = Num(2)
  /\ call.p[Arg(1).els[3]] = Num(1)

\* C4: findIndex(p, xs) is Just the smallest position whose element
\* satisfies p and Nothing exactly when none does; elemIndex(a, xs) is Just
\* the position of the first element equal to a, or Nothing.
C4_FindIndex ==
  /\ IsCall("findIndex") /\ Arg(1).t = "List"
     => call.ret = FirstOrNothing(Matches(call.p, Arg(1)))
  /\ IsCall("elemIndex") /\ Arg(2).t = "List"
     => call.ret = FirstOrNothing(Equals(Arg(1), Arg(2)))

C4_Witness ==
  /\ IsCall("findIndex")
  /\ Arg(1).t = "List"
  /\ call.ret = Just(Num(1))
  /\ Cardinality(Matches(call.p, Arg(1))) = 2

\* C5: find(p, xs) is Just the first element that satisfies p and Nothing
\* when none does; so it is Just index(xs, i) when findIndex(p, xs) is
\* Just i, and the two are Nothing together.
C5_Find ==
  IsCall("find") /\ Arg(1).t = "List" =>
    LET S == Matches(call.p, Arg(1))
        i == findIndex(call.p, Arg(1))
    IN  /\ call.ret = IF S = {} THEN Nothing ELSE Just(Arg(1).els[Least(S) + 1])
        /\ i.t = "Just" => call.ret = Just(index(Arg(1), i.els[1].n))
        /\ (i = Nothing) <=> (call.ret = Nothing)

C5_Witness ==
  /\ IsCall("find")
  /\ Arg(1).t = "List"
  /\ findIndex(call.p, Arg(1)) = Just(Num(2))
  /\ call.ret = Just(Num(0))

(* ========================= properties: list/inf.js ==================== *)
\* the node reached from the List cycle returned by following tail k times
RECURSIVE NodeAt(_)
NodeAt(k) ==
  IF k = 0 THEN 1
  ELSE LET n == NodeAt(k - 1) IN IF n = 0 THEN 0 ELSE heap[n].tail

Forced == {NodeAt(k) : k \in 0..(MaxGen + 1)} \ {0}
ElementOf(k) == as.els[(k % Len(as.els)) + 1]

\* C1: for a non-empty List as of length L, the element of cycle(as) at
\* position k is the element of as at position k mod L, for L = 1 and across
\* every wrap-around, and following tail never reaches the empty List.
C1_CycleElements ==
  cpc = "ready" =>
    /\ \A k \in 0..MaxPos :
         /\ NodeAt(k) # 0 => heap[NodeAt(k)].head = ElementOf(k)
         /\ seen[k] \subseteq {ElementOf(k)}
    /\ \A c \in Cursors : cur[c] # 0 /\ cur[c] = NodeAt(pos[c])

C1_Witness ==
  /\ cpc = "ready"
  /\ Len(as.els) = 2
  /\ as.els[1] # as.els[2]
  /\ pos[1] = 4
  /\ seen[2] # {} /\ seen[3] # {} /\ seen[4] # {}

\* C10: a node's successor is generated at most once: reading tail on a
\* forced node returns the same successor and does not advance the
\* generator, every position shows one value however often and in whatever
\* interleaving it is read, and the generator has advanced once per forced
\* node beyond the first.
C10_ForcedOnce ==
  /\ [](cpc = "ready" =>
          /\ genCount = Cardinality(Forced) - 1
          /\ \A k \in 0..MaxPos : Cardinality(seen[k]) <= 1)
  /\ [][cpc = "ready" =>
          /\ \A k \in 1..Len(heap) :
               heap[k].tail # 0 => heap'[k].tail = heap[k].tail
          /\ \A c \in Cursors :
               pos'[c] = pos[c] + 1 /\ heap[cur[c]].tail # 0
               => cur'[c] = heap[cur[c]].tail /\ genCount' = genCount]_vars

C10_Witness ==
  /\ cpc = "ready"
  /\ pos[1] = 3 /\ pos[2] = 2
  /\ genCount = 3
  /\ seen[2] # {}

\* C9: replicate(n, x) terminates with a List of exactly n elements, all x,
\* taken from repeat(x), every position of which holds x.
C9_Replicate ==
  /\ [](rpc = "done" =>
          /\ Len(out) = rn
          /\ \A i \in 1..Len(out) : out[i] = rx)
  /\ [](\A k \in 1..Len(rheap) : rheap[k].head = rx)
  /\ (rpc = "take") ~> (rpc = "done")

C9_Witness ==
  /\ rpc = "done"
  /\ rn = 4
  /\ Len(out) = 4
  /\ Len(rheap) >= 4
====
